---- MODULE Spec2Model ----
(***************************************************************************)
(* Model of the equity-analysis pipeline: the per-sheet processing of      *)
(* equity_analyzer_core (procesar_datos_stock), the aggregator             *)
(* run_full_analysis, its two callers (the FastAPI endpoint and the CLI)   *)
(* and the legacy numeric helpers of excel_analysis (ROC threshold         *)
(* selection, the final-value score and the min-max normalisation).       *)
(*                                                                         *)
(* Numbers: predictions are modelled as integer scores 0..MaxScore (the    *)
(* code's floats scaled), rates of the ROC curve as exact fractions over   *)
(* the common denominator P*N, normalised values as fractions num / den.   *)
(***************************************************************************)
EXTENDS Integers, Sequences, FiniteSets

\* ------------------------------------------------------------------ bounds

\* Total number of sheets one run iterates over all its workbooks.
MaxSheets == 2

\* Longest vector given to the scoring computation on its own.
MaxLen == 3

\* Scores and thresholds given to the scoring computation on its own are
\* 0..MaxScore.
MaxScore == 2

\* Calls of the threshold selection made on one input.
MaxCalls == 2

\* -------------------------------------------------------------- constants

\* required_files of the endpoint; one configuration reads each of them.
RequiredFiles == {"MEXBOL.xlsx", "IFMEXICO.xlsx", "IEMEXICO.xlsx"}

\* A file name outside the required set that a client may also upload.
ExtraFile == "OTHER.xlsx"

\* EXCEL_CONFIGURATIONS, in iteration order, and each one's config["file_name"].
ConfigOrder == <<"MEXBOL", "IFMEXICO", "IEMEXICO">>

ConfigNames == {ConfigOrder[i] : i \in 1..Len(ConfigOrder)}

FileOf(config_name) == config_name \o ".xlsx"

\* COLUMN_NAMES: the price, detail and feature columns of a configuration.
PriceColumn == "Precio"

DetailColumn == "Detalle"

FeatureColumns == <<"Movilveintiuno", "Movilcincocinco", "Movilunocuatrocuatro",
                    "Momentdiez", "Momentsetenta", "Momenttrescerocero">>

SheetNames == {"AAA", "BBB"}

\* Values a cell of the detail (target) column may hold after float coercion.
TargetValues == {0, 1, 2}

\* Lengths of a sheet's evaluation vectors, and the scores the model predicts
\* on a sheet.
SheetEvalLengths == {1, 2}

SheetScores == {0, 1}

\* The worked example of the score: target, predictions and threshold in
\* tenths (0.8, 0.2, 0.9, 0.3, 0.1 against 0.5).
Example == [Y_test |-> <<1, 0, 1, 1, 0>>, y_pred |-> <<8, 2, 9, 3, 1>>,
            optimal_threshold |-> 5]

\* An evaluation of twenty rows with distinct predictions, ten of each class,
\* whose ROC curve has eighteen points, two of them at the least |tf|.
LongExample ==
    [Y_test |-> <<0, 1, 0, 1, 0, 0, 1, 1, 0, 1, 1, 0, 1, 0, 1, 0, 1, 0, 1, 0>>,
     y_pred |-> <<20, 19, 18, 17, 16, 15, 14, 13, 12, 11, 10, 9, 8, 7, 6, 5, 4, 3, 2, 1>>]

\* np.argsort(kind="quicksort") is not a stable sort: which of two equal
\* values it puts first is left to the build of numpy.
TieOrders == {"first", "last"}

\* A sheet result whose grade the aggregator has not filled in yet.
Ungraded == "-"

\* ------------------------------------------------------------ sequences

RECURSIVE Sum(_)
\* np.sum of a vector.
Sum(v) == IF v = <<>> THEN 0 ELSE v[1] + Sum(Tail(v))

SetMax(S) == CHOOSE x \in S : \A y \in S : y <= x

SetMin(S) == CHOOSE x \in S : \A y \in S : x <= y

RECURSIVE SortedDesc(_)
\* The values of a finite set of integers, largest first.
SortedDesc(S) == IF S = {} THEN <<>>
                 ELSE <<SetMax(S)>> \o SortedDesc(S \ {SetMax(S)})

Range(s) == {s[i] : i \in 1..Len(s)}

Abs(x) == IF x < 0 THEN -x ELSE x

\* ------------------------------------------------- sklearn.metrics.roc_curve

\* np.inf, the threshold roc_curve puts in front of the curve: larger than
\* every score of the model.
Infinity ==
    SetMax(Range(Example.y_pred) \cup Range(LongExample.y_pred)
           \cup SheetScores \cup {MaxScore}) + 1

\* type_of_target / pos_label check of _binary_clf_curve: labels outside
\* {0, 1} make roc_curve raise ValueError.
BinaryLabels(y_true) == Range(y_true) \subseteq {0, 1}

\* _binary_clf_curve: one point per distinct score, scores decreasing;
\* tps/fps count the positives/negatives scored at or above the threshold.
ClfThresholds(y_score) == SortedDesc(Range(y_score))

ClfTps(y_true, y_score) ==
    LET th == ClfThresholds(y_score)
    IN  [k \in 1..Len(th) |->
            Cardinality({i \in 1..Len(y_score) : y_score[i] >= th[k] /\ y_true[i] = 1})]

ClfFps(y_true, y_score) ==
    LET th == ClfThresholds(y_score)
    IN  [k \in 1..Len(th) |->
            Cardinality({i \in 1..Len(y_score) : y_score[i] >= th[k] /\ y_true[i] # 1})]

\* drop_intermediate=True: with more than two points, keep the first, the
\* last, and every point where the second difference of fps or tps is not 0.
KeptPoints(fps, tps) ==
    LET n == Len(fps)
    IN  IF n <= 2 THEN 1..n
        ELSE {k \in 1..n : \/ k = 1
                           \/ k = n
                           \/ fps[k+1] - 2 * fps[k] + fps[k-1] # 0
                           \/ tps[k+1] - 2 * tps[k] + tps[k-1] # 0}

RECURSIVE SelectPoints(_, _, _)
\* arr[optimal_idxs]: the entries of arr at the kept positions, in order.
SelectPoints(arr, keep, k) ==
    IF k > Len(arr) THEN <<>>
    ELSE (IF k \in keep THEN <<arr[k]>> ELSE <<>>) \o SelectPoints(arr, keep, k + 1)

\* roc_curve(y_true, y_score): the counts fps, tps and the thresholds, with the
\* extra first point (0, 0, inf). fpr = fps / N and tpr = tps / P, where
\* N = fps[-1] and P = tps[-1]; a rate whose denominator is 0 is NaN.
roc_curve(y_true, y_score) ==
    LET fps0 == ClfFps(y_true, y_score)
        tps0 == ClfTps(y_true, y_score)
        keep == KeptPoints(fps0, tps0)
        fps  == <<0>> \o SelectPoints(fps0, keep, 1)
        tps  == <<0>> \o SelectPoints(tps0, keep, 1)
    IN  [fps |-> fps,
         tps |-> tps,
         thresholds |-> <<Infinity>> \o SelectPoints(ClfThresholds(y_score), keep, 1),
         N |-> fps[Len(fps)],
         P |-> tps[Len(tps)]]

\* ---------------------------------------------- excel_analysis (legacy) code

\* roc.tf = tpr - (1 - fpr) at point k, times P*N (P, N > 0).
TfTimesPN(roc, k) == roc.tps[k] * roc.N + roc.fps[k] * roc.P - roc.P * roc.N

\* The positions of the curve whose |tf| is the least.
LeastTf(roc) ==
    {k \in 1..Len(roc.thresholds) :
        \A j \in 1..Len(roc.thresholds) :
            Abs(TfTimesPN(roc, k)) <= Abs(TfTimesPN(roc, j))}

\* numpy's quicksort sorts a partition of at most SMALL_QUICKSORT + 1 elements
\* by insertion, which keeps equal values in their order.
SMALL_QUICKSORT == 16

\* The position put first when the values at `least` are equal and least.
FirstOfTied(least, n, ties) ==
    IF n <= SMALL_QUICKSORT + 1 \/ ties = "first"
    THEN CHOOSE k \in least : \A j \in least : k <= j
    ELSE CHOOSE k \in least : \A j \in least : k >= j

\* (roc.tf - 0).abs().argsort()[:1] as a position of the curve. With one class
\* absent every tf is NaN and Series.argsort marks NaN positions with -1, so
\* iloc picks the last row; otherwise a position of the least |tf|: the first
\* one on a short curve, the one the sort puts first on a longer curve.
OptimalIndex(roc, ties) ==
    LET n == Len(roc.thresholds)
    IN  IF roc.P = 0 \/ roc.N = 0 THEN n
        ELSE FirstOfTied(LeastTf(roc), n, ties)

\* get_optimal_threshold(Y_test, y_pred): raised when roc_curve raises,
\* else the threshold of the selected ROC point.
get_optimal_threshold(Y_test, y_pred, ties) ==
    IF ~BinaryLabels(Y_test)
    THEN [raised |-> TRUE, value |-> 0]
    ELSE LET roc == roc_curve(Y_test, y_pred)
         IN  [raised |-> FALSE, value |-> roc.thresholds[OptimalIndex(roc, ties)]]

\* A float that is a number, as the fraction num / den (den > 0), and the
\* float that is not one.
Float(num, den) == [nan |-> FALSE, num |-> num, den |-> den]

NaN == [nan |-> TRUE, num |-> 0, den |-> 1]

\* Series / scalar for the quotient of the normalisation: the divisor is 0
\* only when every dividend is 0, and 0 / 0 is NaN (no exception).
Divide(num, den) == IF den = 0 THEN NaN ELSE Float(num, den)

\* columns_to_normalize = [price] + features
columns_to_normalize == <<PriceColumn>> \o FeatureColumns

\* normalize_column(df, column_name):
\* df[c] = (df[c] - df[c].min()) / (df[c].max() - df[c].min())
normalize_column(df, column_name) ==
    LET column == df[column_name]
        min == SetMin(Range(column))
        max == SetMax(Range(column))
    IN  [df EXCEPT ![column_name] =
            [i \in 1..Len(column) |-> Divide(column[i] - min, max - min)]]

RECURSIVE NormalizeFrom(_, _)
\* for column in columns_to_normalize: normalize_column(df, column), from the
\* k-th column on.
NormalizeFrom(df, k) ==
    IF k > Len(columns_to_normalize) THEN df
    ELSE NormalizeFrom(normalize_column(df, columns_to_normalize[k]), k + 1)

normalize_data(df) == NormalizeFrom(df, 1)

\* The comparison with >= in place of >.
threshold_comparison_inclusive(y_pred, optimal_threshold) ==
    [i \in 1..Len(y_pred) |-> IF y_pred[i] >= optimal_threshold THEN 1 ELSE 0]

\* df_predicciones['threshold_comparison']: (Predicted > optimal_threshold).astype(int)
threshold_comparison(y_pred, optimal_threshold) ==
    [i \in 1..Len(y_pred) |-> IF y_pred[i] > optimal_threshold THEN 1 ELSE 0]

\* final_value = conteo_positivos_reales - conteo_positivos_predichos
final_value_of(Y_test, y_pred, optimal_threshold) ==
    LET conteo_positivos_reales == Sum(Y_test)
        conteo_positivos_predichos == Sum(threshold_comparison(y_pred, optimal_threshold))
    IN  conteo_positivos_reales - conteo_positivos_predichos

\* ------------------------------------------------------- one sheet's table

\* columnas_requeridas: [price, detail] + features.
RequiredColumns == <<PriceColumn, DetailColumn>> \o FeatureColumns

\* A sheet's DataFrame as the pipeline sees it: the columns it has, whether it
\* has the rows validation and training need, and the evaluation vectors the
\* trained model produces on it (empty for a table that is never trained on).
UntrainedDf(columns, enough_rows) ==
    [columns |-> columns, enough_rows |-> enough_rows, trainable |-> FALSE,
     Y_test |-> <<>>, y_pred |-> <<>>]

\* Evaluation vectors of equal length: every pair with 0/1 labels, and each
\* label vector holding another value with one score vector (roc_curve
\* rejects it before it reads the scores).
EvalPairs ==
    UNION {{e \in [1..n -> TargetValues] \X [1..n -> SheetScores] :
               BinaryLabels(e[1]) \/ e[2] = [i \in 1..n |-> 0]} : n \in SheetEvalLengths}

Dfs ==
    {UntrainedDf(Range(RequiredColumns) \ {c}, TRUE) : c \in Range(RequiredColumns)}
    \cup {UntrainedDf(Range(RequiredColumns), b) : b \in BOOLEAN}
    \cup {[columns |-> Range(RequiredColumns), enough_rows |-> TRUE, trainable |-> TRUE,
           Y_test |-> e[1], y_pred |-> e[2]] : e \in EvalPairs}

\* The column check with any() in place of all().
SomeExpectedColumn(df, expected_columns) ==
    \E i \in 1..Len(expected_columns) : expected_columns[i] \in df.columns

\* all(column in df.columns for column in expected_columns)
HasExpectedColumns(df, expected_columns) ==
    \A i \in 1..Len(expected_columns) : expected_columns[i] \in df.columns

\* validar_datos_hoja: False when a required column is absent or the table
\* has fewer rows than the minimum.
validar_datos_hoja(df, columnas_requeridas) ==
    HasExpectedColumns(df, columnas_requeridas) /\ df.enough_rows

\* entrenar_y_predecir: (modelo, y_pred, Y_test); modelo is None when the
\* table cannot be trained on.
entrenar_y_predecir(df) ==
    IF df.trainable
    THEN [modelo |-> "MLPRegressor", y_pred |-> df.y_pred, Y_test |-> df.Y_test]
    ELSE [modelo |-> "None", y_pred |-> <<>>, Y_test |-> <<>>]

SheetResult(sheet_name, final_value, grade, optimal_threshold) ==
    [sheet_name |-> sheet_name, final_value |-> final_value, grade |-> grade,
     optimal_threshold |-> optimal_threshold]

\* calcular_calificaciones_y_umbral: the threshold, then the score; the grade
\* is left for the aggregator. An exception of the threshold selection
\* propagates.
calcular_calificaciones_y_umbral(y_pred, Y_test, sheet_name, ties) ==
    LET umbral == get_optimal_threshold(Y_test, y_pred, ties)
    IN  IF umbral.raised
        THEN [raised |-> TRUE, resultado_hoja |-> SheetResult(sheet_name, 0, Ungraded, 0)]
        ELSE [raised |-> FALSE,
              resultado_hoja |-> SheetResult(sheet_name,
                                             final_value_of(Y_test, y_pred, umbral.value),
                                             Ungraded, umbral.value)]

\* asignar_calificaciones_y_actualizar_resultados: every result gets the grade
\* of its rank by final_value among the results of the configuration.
RankOf(results, i) ==
    1 + Cardinality({j \in 1..Len(results) : results[j].final_value > results[i].final_value})

GradeOfRank(rank) == IF rank = 1 THEN "A" ELSE IF rank = 2 THEN "B" ELSE "C"

asignar_calificaciones_y_actualizar_resultados(results) ==
    [i \in 1..Len(results) |->
        [results[i] EXCEPT !.grade = GradeOfRank(RankOf(results, i))]]

\* procesar_datos_stock(df, sheet_name, results_list, columns), under a tie
\* order of the sort: the callees it invoked, whether an exception left it,
\* and results_list afterwards.
procesar_datos_stock(df, sheet_name, results_list, ties) ==
    IF ~validar_datos_hoja(df, RequiredColumns)
    THEN [calls |-> <<"validar_datos_hoja">>, raised |-> FALSE,
          results_list |-> results_list]
    ELSE LET entrenado == entrenar_y_predecir(df)
         IN  IF entrenado.modelo = "None"
             THEN [calls |-> <<"validar_datos_hoja", "entrenar_y_predecir">>,
                   raised |-> FALSE, results_list |-> results_list]
             ELSE LET calculado == calcular_calificaciones_y_umbral(
                                       entrenado.y_pred, entrenado.Y_test, sheet_name,
                                       ties)
                  IN  [calls |-> <<"validar_datos_hoja", "entrenar_y_predecir",
                                   "calcular_calificaciones_y_umbral">>,
                       raised |-> calculado.raised,
                       results_list |->
                           IF calculado.raised THEN results_list
                           ELSE Append(results_list, calculado.resultado_hoja)]

\* sorted(results, key=lambda x: x.final_value, reverse=True): a stable sort,
\* results of equal final_value keep their order.
RECURSIVE InsertByFinalValue(_, _)
InsertByFinalValue(sorted, r) ==
    IF sorted = <<>> THEN <<r>>
    ELSE IF Head(sorted).final_value >= r.final_value
         THEN <<Head(sorted)>> \o InsertByFinalValue(Tail(sorted), r)
         ELSE <<r>> \o sorted

RECURSIVE SortByFinalValueDesc(_)
SortByFinalValueDesc(results) ==
    IF results = <<>> THEN <<>>
    ELSE InsertByFinalValue(SortByFinalValueDesc(SubSeq(results, 1, Len(results) - 1)),
                            results[Len(results)])

\* The results left in the order of arrival.
unsorted_results(results_for_config) == results_for_config

sorted_results(results_for_config) == SortByFinalValueDesc(results_for_config)

\* ------------------------------------------------------------ the callers

\* analyze_excel_files, after the required-files check: the body of the try
\* block either raises or returns; `except Exception` turns whatever was
\* raised inside it, the HTTPException(422) included, into a 500.
TryOutcome(run_raised, results) ==
    IF run_raised THEN "Exception"
    ELSE IF DOMAIN results = {} THEN "HTTPException422"
    ELSE "results"

analyze_response(run_raised, results) ==
    IF TryOutcome(run_raised, results) = "results" THEN 200 ELSE 500

\* The check with "some required file" in place of "every required file".
some_required_present(uploaded_filenames) == RequiredFiles \cap uploaded_filenames # {}

\* required_files.issubset(uploaded_filenames)
required_present(uploaded_filenames) == RequiredFiles \subseteq uploaded_filenames

\* ------------------------------------------------------------------ state

VARIABLES
    entry,               \* who called run_full_analysis: "none", "api", "cli"
    uploaded,            \* uploaded_filenames of the request
    data_dir,            \* files the API saved into its temporary directory
    pc,                  \* position: "idle", "config", "sheets", "returned",
                         \* "raised", "done"
    cfg,                 \* index in ConfigOrder of the configuration at hand
    seen,                \* sheets of valid_sheets already iterated
    sheets_used,         \* sheets iterated so far in the run
    results_for_config,  \* the list procesar_datos_stock appends to
    all_results_data,    \* the mapping run_full_analysis returns
    last,                \* the last call of procesar_datos_stock
    grade_calls,         \* calls of asignar_calificaciones..., per configuration
    skipped,             \* configurations skipped: file missing or not loaded
    emptied,             \* configurations warned "No valid data processed"
    status,              \* HTTP status of the response, 0 before it
    cli_out,             \* what the CLI did after the run
    probe                \* one application of the scoring computation

vars == <<entry, uploaded, data_dir, pc, cfg, seen, sheets_used, results_for_config,
          all_results_data, last, grade_calls, skipped, emptied, status,
          cli_out, probe>>

run_vars == <<cfg, seen, sheets_used, results_for_config, all_results_data,
              last, grade_calls, skipped, emptied>>

NoCall == [sheet_name |-> "", columns |-> {}, classes |-> {}, calls |-> <<>>,
           raised |-> FALSE, appended |-> 0]

NoProbe == [Y_test |-> <<>>, y_pred |-> <<>>, optimal_threshold |-> 0,
            final_value |-> 0, applied |-> FALSE]

\* A mapping with no keys.
EmptyMapping == [c \in {} |-> <<>>]

\* Nothing has been called yet.
InitRun ==
    /\ entry = "none"
    /\ uploaded = {}
    /\ data_dir = {}
    /\ pc = "idle"
    /\ cfg = 1
    /\ seen = {}
    /\ sheets_used = 0
    /\ results_for_config = <<>>
    /\ all_results_data = EmptyMapping
    /\ last = NoCall
    /\ grade_calls = [c \in ConfigNames |-> 0]
    /\ skipped = {}
    /\ emptied = {}
    /\ status = 0
    /\ cli_out = "none"

Init ==
    /\ InitRun
    /\ probe = NoProbe

\* ---------------------------------------------------------------- actions

\* POST /analyze/ with a missing required file: 400 before anything is saved.
ApiReject ==
    /\ pc = "idle"
    /\ \E uploaded_filenames \in SUBSET (RequiredFiles \cup {ExtraFile}) :
          /\ ~required_present(uploaded_filenames)
          /\ uploaded' = uploaded_filenames
          /\ entry' = "api"
          /\ status' = 400
          /\ pc' = "done"
    /\ UNCHANGED <<data_dir, cli_out, probe>>
    /\ UNCHANGED run_vars

\* POST /analyze/ with every required file: process_uploaded_files saves each
\* upload into the temporary directory and calls run_full_analysis on it.
ApiAccept ==
    /\ pc = "idle"
    /\ \E uploaded_filenames \in SUBSET (RequiredFiles \cup {ExtraFile}) :
          /\ required_present(uploaded_filenames)
          /\ uploaded' = uploaded_filenames
          /\ entry' = "api"
          /\ data_dir' = uploaded_filenames
          /\ pc' = "config"
    /\ UNCHANGED <<status, cli_out, probe>>
    /\ UNCHANGED run_vars

\* CLI main(): a missing data directory is logged and main returns; else
\* run_full_analysis(args.data_dir).
CliStart ==
    /\ pc = "idle"
    /\ entry' = "cli"
    /\ \/ /\ cli_out' = "no_data_dir"
          /\ pc' = "done"
          /\ UNCHANGED data_dir
       \/ /\ pc' = "config"
          /\ UNCHANGED <<data_dir, cli_out>>
    /\ UNCHANGED <<uploaded, status, probe>>
    /\ UNCHANGED run_vars

\* file_path.exists(): the API's directory holds what was saved into it; the
\* directory given to the CLI holds the file or not.
FileExists(who, saved, file_name, on_disk) ==
    IF who = "api" THEN file_name \in saved ELSE on_disk

\* The skip storing an empty list under the configuration's name.
SkipConfigStoringEmpty ==
    /\ pc = "config"
    /\ cfg <= Len(ConfigOrder)
    /\ \E on_disk \in BOOLEAN, loaded \in BOOLEAN :
          /\ ~FileExists(entry, data_dir, FileOf(ConfigOrder[cfg]), on_disk) \/ ~loaded
          /\ skipped' = skipped \cup {ConfigOrder[cfg]}
          /\ all_results_data' =
                [c \in DOMAIN all_results_data \cup {ConfigOrder[cfg]} |->
                    IF c = ConfigOrder[cfg] THEN <<>> ELSE all_results_data[c]]
          /\ cfg' = cfg + 1
    /\ UNCHANGED <<entry, uploaded, data_dir, pc, seen, sheets_used, results_for_config,
                   last, grade_calls, emptied, status, cli_out, probe>>

\* Top of the configuration loop, file missing or validar_y_cargar_hojas
\* returning no data: continue with the next configuration.
SkipConfig ==
    /\ pc = "config"
    /\ cfg <= Len(ConfigOrder)
    /\ \E on_disk \in BOOLEAN, loaded \in BOOLEAN :
          /\ ~FileExists(entry, data_dir, FileOf(ConfigOrder[cfg]), on_disk) \/ ~loaded
          /\ skipped' = skipped \cup {ConfigOrder[cfg]}
          /\ cfg' = cfg + 1
    /\ UNCHANGED <<entry, uploaded, data_dir, pc, seen, sheets_used, results_for_config,
                   all_results_data, last, grade_calls, emptied, status,
                   cli_out, probe>>

\* Top of the configuration loop, file present and loaded: results_for_config = [].
LoadConfig ==
    /\ pc = "config"
    /\ cfg <= Len(ConfigOrder)
    /\ \E on_disk \in BOOLEAN :
          FileExists(entry, data_dir, FileOf(ConfigOrder[cfg]), on_disk)
    /\ results_for_config' = <<>>
    /\ seen' = {}
    /\ pc' = "sheets"
    /\ UNCHANGED <<entry, uploaded, data_dir, cfg, sheets_used, all_results_data, last,
                   grade_calls, skipped, emptied, status, cli_out, probe>>

\* The iteration grading the results each time a sheet has been processed.
ProcessSheetGrading ==
    /\ pc = "sheets"
    /\ sheets_used < MaxSheets
    /\ \E sheet_name \in SheetNames \ seen, df \in Dfs, ties \in TieOrders :
          LET out == procesar_datos_stock(df, sheet_name, results_for_config, ties)
          IN  /\ seen' = seen \cup {sheet_name}
              /\ results_for_config' =
                    asignar_calificaciones_y_actualizar_resultados(out.results_list)
              /\ grade_calls' = [grade_calls EXCEPT ![ConfigOrder[cfg]] = @ + 1]
              /\ last' = [sheet_name |-> sheet_name, columns |-> df.columns,
                          classes |-> Range(df.Y_test), calls |-> out.calls,
                          raised |-> out.raised,
                          appended |-> Len(out.results_list) - Len(results_for_config)]
              /\ pc' = IF out.raised THEN "raised" ELSE "sheets"
    /\ sheets_used' = sheets_used + 1
    /\ UNCHANGED <<entry, uploaded, data_dir, cfg, all_results_data, skipped,
                   emptied, status, cli_out, probe>>

\* One iteration of `for sheet_name in valid_sheets` on a sheet of all_data:
\* procesar_datos_stock on its table. An exception leaves run_full_analysis.
ProcessSheet ==
    /\ pc = "sheets"
    /\ sheets_used < MaxSheets
    /\ \E sheet_name \in SheetNames \ seen, df \in Dfs, ties \in TieOrders :
          LET out == procesar_datos_stock(df, sheet_name, results_for_config, ties)
          IN  /\ seen' = seen \cup {sheet_name}
              /\ results_for_config' = out.results_list
              /\ last' = [sheet_name |-> sheet_name, columns |-> df.columns,
                          classes |-> Range(df.Y_test), calls |-> out.calls,
                          raised |-> out.raised,
                          appended |-> Len(out.results_list) - Len(results_for_config)]
              /\ pc' = IF out.raised THEN "raised" ELSE "sheets"
    /\ sheets_used' = sheets_used + 1
    /\ UNCHANGED <<entry, uploaded, data_dir, cfg, all_results_data, grade_calls, skipped,
                   emptied, status, cli_out, probe>>

\* One iteration on a name of valid_sheets that all_data does not hold.
AbsentSheet ==
    /\ pc = "sheets"
    /\ sheets_used < MaxSheets
    /\ \E sheet_name \in SheetNames \ seen : seen' = seen \cup {sheet_name}
    /\ sheets_used' = sheets_used + 1
    /\ UNCHANGED <<entry, uploaded, data_dir, pc, cfg, results_for_config, all_results_data,
                   last, grade_calls, skipped, emptied, status, cli_out, probe>>

\* After the sheet loop with no result: warn and continue.
EmptyConfig ==
    /\ pc = "sheets"
    /\ results_for_config = <<>>
    /\ emptied' = emptied \cup {ConfigOrder[cfg]}
    /\ cfg' = cfg + 1
    /\ pc' = "config"
    /\ UNCHANGED <<entry, uploaded, data_dir, seen, sheets_used, results_for_config,
                   all_results_data, last, grade_calls, skipped, status,
                   cli_out, probe>>

\* After the sheet loop with results: grade them in place, sort a copy by
\* final_value, store it under the configuration's name.
FinishConfig ==
    /\ pc = "sheets"
    /\ results_for_config # <<>>
    /\ LET graded == asignar_calificaciones_y_actualizar_resultados(results_for_config)
           name == ConfigOrder[cfg]
       IN  /\ results_for_config' = graded
           /\ grade_calls' = [grade_calls EXCEPT ![name] = @ + 1]
           /\ all_results_data' =
                 [c \in DOMAIN all_results_data \cup {name} |->
                     IF c = name THEN sorted_results(graded) ELSE all_results_data[c]]
    /\ cfg' = cfg + 1
    /\ pc' = "config"
    /\ UNCHANGED <<entry, uploaded, data_dir, seen, sheets_used, last, skipped, emptied,
                   status, cli_out, probe>>

\* return all_results_data
Return ==
    /\ pc = "config"
    /\ cfg > Len(ConfigOrder)
    /\ pc' = "returned"
    /\ UNCHANGED <<entry, uploaded, data_dir, status, cli_out, probe>>
    /\ UNCHANGED run_vars

\* The endpoint's answer once process_uploaded_files returned or raised.
ApiRespond ==
    /\ entry = "api"
    /\ pc \in {"returned", "raised"}
    /\ status' = analyze_response(pc = "raised", all_results_data)
    /\ data_dir' = {}
    /\ pc' = "done"
    /\ UNCHANGED <<entry, uploaded, cli_out, probe>>
    /\ UNCHANGED run_vars

\* The CLI after run_full_analysis: nothing written for an empty mapping,
\* else the JSON and Excel outputs; an exception ends the program.
CliFinish ==
    /\ entry = "cli"
    /\ pc \in {"returned", "raised"}
    /\ cli_out' = IF pc = "raised" THEN "crashed"
                  ELSE IF DOMAIN all_results_data = {} THEN "no_results"
                  ELSE "written"
    /\ pc' = "done"
    /\ UNCHANGED <<entry, uploaded, data_dir, status, probe>>
    /\ UNCHANGED run_vars

Next ==
    \/ ApiReject
    \/ ApiAccept
    \/ CliStart
    \/ SkipConfig
    \/ LoadConfig
    \/ ProcessSheet
    \/ AbsentSheet
    \/ EmptyConfig
    \/ FinishConfig
    \/ Return
    \/ ApiRespond
    \/ CliFinish

Spec == Init /\ [][Next]_vars

\* --------------------------------------------- the scoring computation alone

\* Inputs of the score: label and prediction vectors of equal length with a
\* threshold, and the worked example.
ScoreInputs ==
    {[Y_test |-> e[1], y_pred |-> e[2], optimal_threshold |-> e[3]] :
        e \in UNION {[1..n -> TargetValues] \X [1..n -> 0..MaxScore]
                        \X (0..MaxScore \cup {Infinity}) : n \in 1..MaxLen}}
    \cup {Example}

\* The score is about to be computed on some input.
InitScore ==
    /\ InitRun
    /\ \E in \in ScoreInputs :
          probe = [Y_test |-> in.Y_test, y_pred |-> in.y_pred,
                   optimal_threshold |-> in.optimal_threshold,
                   final_value |-> 0, applied |-> FALSE]

\* Lines 133-139 of process_stock_data applied to the input.
ApplyScore ==
    /\ ~probe.applied
    /\ probe' = [probe EXCEPT
                    !.final_value = final_value_of(probe.Y_test, probe.y_pred,
                                                   probe.optimal_threshold),
                    !.applied = TRUE]
    /\ UNCHANGED <<entry, uploaded, data_dir, pc, status, cli_out>>
    /\ UNCHANGED run_vars

SpecScore == InitScore /\ [][ApplyScore]_vars

\* ------------------------------------------- the threshold selection alone

\* Inputs of the threshold selection: 0/1 label vectors and prediction vectors
\* of equal length, and the long evaluation.
ThresholdInputs ==
    {[Y_test |-> e[1], y_pred |-> e[2]] :
        e \in UNION {[1..n -> {0, 1}] \X [1..n -> 0..MaxScore] : n \in 1..MaxLen}}
    \cup {LongExample}

\* get_optimal_threshold is about to be called on some input, under some
\* build of numpy.
InitThreshold ==
    /\ InitRun
    /\ \E in \in ThresholdInputs, ties \in TieOrders :
          probe = [Y_test |-> in.Y_test, y_pred |-> in.y_pred, ties |-> ties,
                   thresholds |-> <<>>]

\* One more call of get_optimal_threshold on the same input; its return value
\* is kept.
ApplyThreshold ==
    /\ Len(probe.thresholds) < MaxCalls
    /\ probe' = [probe EXCEPT
                    !.thresholds =
                        Append(@, get_optimal_threshold(probe.Y_test, probe.y_pred,
                                                        probe.ties).value)]
    /\ UNCHANGED <<entry, uploaded, data_dir, pc, status, cli_out>>
    /\ UNCHANGED run_vars

SpecThreshold == InitThreshold /\ [][ApplyThreshold]_vars

\* ------------------------------------------------------ normalisation alone

\* Tables of one to MaxLen rows with the columns of a configuration: the
\* first `split` columns to normalise hold the values a, the others the
\* values b, the detail column holds 0/1 labels.
Frame(a, b, split) ==
    [c \in Range(RequiredColumns) |->
        IF c = DetailColumn THEN [i \in 1..Len(a) |-> i % 2]
        ELSE IF \E k \in 1..split : columns_to_normalize[k] = c THEN a
        ELSE b]

\* normalize_data is about to be called on some table.
InitNormalize ==
    /\ InitRun
    /\ \E n \in 1..MaxLen :
          \E a \in [1..n -> 0..MaxScore], b \in [1..n -> 0..MaxScore],
             split \in 1..Len(columns_to_normalize) :
              probe = [raw |-> Frame(a, b, split), df |-> Frame(a, b, split),
                       applied |-> FALSE]

\* normalize_data(df): the table is changed in place.
ApplyNormalize ==
    /\ ~probe.applied
    /\ probe' = [probe EXCEPT !.df = normalize_data(probe.raw), !.applied = TRUE]
    /\ UNCHANGED <<entry, uploaded, data_dir, pc, status, cli_out>>
    /\ UNCHANGED run_vars

SpecNormalize == InitNormalize /\ [][ApplyNormalize]_vars

\* ------------------------------------------------------------- properties

\* C1: every list of the mapping run_full_analysis builds is ordered by
\* non-increasing final_value: each record's final_value is at least the
\* next one's.
C1_SortedByFinalValue ==
    \A c \in DOMAIN all_results_data :
        \A i \in 1..(Len(all_results_data[c]) - 1) :
            all_results_data[c][i].final_value >= all_results_data[c][i + 1].final_value

\* A returned list of two results that arrived in increasing final_value.
C1_Witness ==
    /\ pc = "returned"
    /\ Len(results_for_config) = 2
    /\ results_for_config[1].final_value < results_for_config[2].final_value
    /\ \E c \in DOMAIN all_results_data :
          /\ Len(all_results_data[c]) = 2
          /\ all_results_data[c][1].sheet_name = results_for_config[2].sheet_name
          /\ all_results_data[c][1].final_value > all_results_data[c][2].final_value

\* C2: a failure raised while one sheet is processed does not abort
\* run_full_analysis: the run is never left by the exception.
C2_SheetFailureDoesNotAbort == last.raised => pc # "raised"

\* C3: a sheet lacking a required column, whichever it is, is rejected by
\* validation: nothing after validar_datos_hoja is invoked for it, nothing is
\* appended and nothing is raised.
C3_MissingColumnStopsAtValidation ==
    \A i \in 1..Len(RequiredColumns) :
        (last.calls # <<>> /\ RequiredColumns[i] \notin last.columns)
            => /\ last.calls = <<"validar_datos_hoja">>
               /\ last.appended = 0
               /\ ~last.raised

\* A processed sheet that lacks only the last feature column, after another
\* sheet of the configuration was scored.
C3_Witness ==
    /\ last.columns = Range(RequiredColumns) \ {FeatureColumns[Len(FeatureColumns)]}
    /\ last.calls = <<"validar_datos_hoja">>
    /\ Len(results_for_config) = 1
    /\ pc = "sheets"

\* C4: a sheet whose evaluation target holds one class only is skipped:
\* no SheetResult is appended for it.
C4_SingleClassSheetSkipped ==
    Cardinality(last.classes) = 1 => last.appended = 0

\* C5: a configuration whose source is unavailable never gets a key, and the
\* step that skips it changes neither the results collected so far nor the
\* sheet processing, and moves on to the next configuration.
C5_UnavailableSourceSkipped ==
    /\ [](skipped \cap DOMAIN all_results_data = {})
    /\ [][skipped' # skipped =>
            /\ all_results_data' = all_results_data
            /\ results_for_config' = results_for_config
            /\ sheets_used' = sheets_used
            /\ last' = last
            /\ pc = "config" /\ pc' = "config"
            /\ skipped' = skipped \cup {ConfigOrder[cfg]}
            /\ cfg' = cfg + 1]_vars

\* A returned run whose second configuration was skipped between two
\* configurations that produced results.
C5_Witness ==
    /\ pc = "returned"
    /\ skipped = {ConfigOrder[2]}
    /\ DOMAIN all_results_data = {ConfigOrder[1], ConfigOrder[3]}

\* C6: a run of the endpoint that returned an empty mapping is answered
\* with 422.
C6_EmptyRunAnswers422 ==
    (entry = "api" /\ pc = "done" /\ required_present(uploaded)
     /\ ~last.raised /\ DOMAIN all_results_data = {})
        => status = 422

Reorderings(results) ==
    {[i \in 1..Len(results) |-> results[p[i]]] :
        p \in {q \in [1..Len(results) -> 1..Len(results)] :
                  \A i, j \in 1..Len(results) : q[i] = q[j] => i = j}}

\* C8: the stored list does not depend on the order of arrival: grading and
\* sorting any permutation of a configuration's results gives the stored list.
C8_OrderIndependent ==
    \A c \in DOMAIN all_results_data :
        \A p \in Reorderings(all_results_data[c]) :
            sorted_results(asignar_calificaciones_y_actualizar_resultados(p))
                = all_results_data[c]

\* C9: the endpoint answers 400 exactly when a required file is not among
\* the uploaded names, and then nothing is saved and the analysis is never
\* started; with every required file uploaded the files are saved and the
\* analysis runs, extra files or not.
C9_MissingFileRejected ==
    entry = "api" =>
        /\ status = 400 <=> ~(RequiredFiles \subseteq uploaded)
        /\ status = 400 =>
              /\ data_dir = {}
              /\ pc = "done"
              /\ cfg = 1 /\ sheets_used = 0 /\ last = NoCall
              /\ skipped = {} /\ emptied = {}
              /\ all_results_data = EmptyMapping
        /\ (RequiredFiles \subseteq uploaded /\ pc # "done") => data_dir = uploaded

\* A request rejected although it uploads three files, one of them extra.
C9_Witness ==
    /\ entry = "api"
    /\ status = 400
    /\ Cardinality(uploaded) = 3
    /\ ExtraFile \in uploaded

\* C10: final_value is the sum of the target minus the number of predictions
\* strictly above the threshold; the worked example gives 1.
C10_FinalValue ==
    probe.applied =>
        /\ probe.final_value =
              Sum(probe.Y_test)
              - Cardinality({i \in 1..Len(probe.y_pred) :
                                probe.y_pred[i] > probe.optimal_threshold})
        /\ (probe.Y_test = Example.Y_test /\ probe.y_pred = Example.y_pred
            /\ probe.optimal_threshold = Example.optimal_threshold)
              => probe.final_value = 1

\* An input with a prediction equal to the threshold and one above it.
C10_Witness ==
    /\ probe.applied
    /\ \E i, j \in 1..Len(probe.y_pred) :
          /\ probe.y_pred[i] = probe.optimal_threshold
          /\ probe.y_pred[j] > probe.optimal_threshold
    /\ probe.final_value = 1

\* C11: on an evaluation holding both classes, every call of
\* get_optimal_threshold returns the threshold of the first ROC point, in the
\* order of the curve, among those whose |tpr - (1 - fpr)| is the least, and
\* repeated calls on the same input return the same value.
C11_FirstLeastPointChosen ==
    LET roc == roc_curve(probe.Y_test, probe.y_pred)
    IN  (roc.P > 0 /\ roc.N > 0) =>
            \A c \in 1..Len(probe.thresholds) :
                /\ \E k \in LeastTf(roc) :
                      /\ \A j \in LeastTf(roc) : k <= j
                      /\ probe.thresholds[c] = roc.thresholds[k]
                /\ probe.thresholds[c] = probe.thresholds[1]

\* C12: after normalize_data every value of the price column and of each
\* feature column is a number in [0, 1] equal to (x - min) / (max - min) over
\* the column, and every value of a constant column is exactly 0; no value is
\* NaN.
C12_NormalizedInUnitRange ==
    probe.applied =>
        \A k \in 1..Len(columns_to_normalize) :
            LET column == probe.raw[columns_to_normalize[k]]
                min == SetMin(Range(column))
                max == SetMax(Range(column))
            IN  \A i \in 1..Len(column) :
                    LET x == probe.df[columns_to_normalize[k]][i]
                    IN  /\ ~x.nan
                        /\ 0 <= x.num /\ x.num <= x.den
                        /\ max # min => x.num * (max - min) = (column[i] - min) * x.den
                        /\ max = min => x.num = 0

\* C13: one call of procesar_datos_stock appends at most one result to
\* results_list and leaves the entries already there as they were; it appends
\* exactly one when validation passed and the trainer returned a model (the
\* scoring was invoked), and none, without invoking the scoring, otherwise.
C13_AtMostOneResultPerCall ==
    /\ [](last.calls # <<>> =>
            /\ last.appended \in {0, 1}
            /\ last.appended = 1 <=>
                  last.calls = <<"validar_datos_hoja", "entrenar_y_predecir",
                                 "calcular_calificaciones_y_umbral">>)
    /\ [][(pc = "sheets" /\ seen' # seen) =>
            /\ Len(results_for_config') <= Len(results_for_config) + 1
            /\ SubSeq(results_for_config', 1, Len(results_for_config))
                  = results_for_config]_vars

====
